---- MODULE Spec2Model ----
(***************************************************************************)
(* The notebooks of amazon-sagemaker-build-train-deploy as one control     *)
(* thread (pc = the cell about to run, err = the exception that stopped    *)
(* it) working against the remote services it calls: the Glue catalog and  *)
(* crawler, the experiment store, S3, the processing / training / hosting  *)
(* jobs, the model monitor and the pipeline executor.  A remote operation  *)
(* is a process of its own: the notebook submits it and, where the call    *)
(* blocks, waits for it.                                                   *)
(*                                                                         *)
(* Strings that the code slices or searches are sequences of symbols: "/"  *)
(* is the separator, a literal path component of the code is one symbol,   *)
(* and the service-generated suffix of a job name is a run of "0" symbols  *)
(* of varying length, so that two URIs differ in length as in the code.    *)
(***************************************************************************)
EXTENDS Integers, Sequences, FiniteSets, TLC

\* ------------------------------------------------------------------ bounds
MaxTables == 2       \* tables one crawler run creates, at most
MaxPolls == 2        \* sleeps of the wait loop that are told apart
MaxFeatures == 2     \* features of the baseline before the target variable
MaxStampLen == 2     \* symbols of a service-generated job-name suffix
MaxCapture == 2      \* capture objects delivered to S3
ReportFiles == 3     \* monitoring_reports[0..2] are copied

\* ----------------------------------------------------------------- strings
Min(a, b) == IF a < b THEN a ELSE b
Max(a, b) == IF a > b THEN a ELSE b

\* str.rfind(c): the highest 0-based index of c in s, -1 when absent.
rfind(s, c) ==
    IF \E i \in 1..Len(s) : s[i] = c
    THEN (CHOOSE i \in 1..Len(s) : s[i] = c /\ \A j \in (i+1)..Len(s) : s[j] # c) - 1
    ELSE -1

\* s[0:k] of Python: k past the end keeps s, a negative k counts from the end.
SliceTo(s, k) ==
    LET stop == IF k < 0 THEN Max(Len(s) + k, 0) ELSE Min(k, Len(s))
    IN  SubSeq(s, 1, stop)

\* '{0}/{1}/...'.format(...): the components joined by "/".
RECURSIVE Joined(_)
Joined(parts) ==
    IF Len(parts) = 0 THEN << >>
    ELSE IF Len(parts) = 1 THEN parts[1]
    ELSE parts[1] \o <<"/">> \o Joined(Tail(parts))

\* Runs of "0" of length 1..MaxStampLen: what a service appends to a job name.
Stamps == UNION { [1..n -> {"0"}] : n \in 1..MaxStampLen }

bucket_name == <<"bucket">>
prefix == <<"endtoendmlsm">>
S3Scheme == <<"s3:", "/", "/">>

\* 's3://{0}/{1}/<rest>'.format(bucket_name, prefix)
S3Fmt(rest) == S3Scheme \o Joined(<<bucket_name, prefix>>) \o <<"/">> \o rest

\* Notebook 02 (and the pipeline parameters' defaults, which repeat them).
raw_data_path == S3Fmt(<<"data", "/", "raw", "/">>)
train_data_path == S3Fmt(<<"data", "/", "preprocessed", "/", "train", "/">>)
val_data_path == S3Fmt(<<"data", "/", "preprocessed", "/", "val", "/">>)
model_path == S3Fmt(<<"output", "/", "sklearn", "/">>)

\* An S3 object: who wrote it; for a baseline file, its 'features' list.
Body(by, features) == [by |-> by, features |-> features]

\* s3[k] after a put of body b at key k.
Put(store, k, b) == [x \in DOMAIN store \cup {k} |-> IF x = k THEN b ELSE store[x]]

\* `aws s3 cp <file> <target>`: a target ending in "/" is a directory.
S3CpKey(file, target) ==
    IF Len(target) > 0 /\ target[Len(target)] = "/" THEN target \o <<file>> ELSE target

\* --------------------------------------------------------------- variables
VARIABLES
    pc,                \* the cell the control thread runs next
    err,               \* "none", or the exception that stopped the notebook
    out,               \* what the last cell printed, where a claim reads it
    s3,                \* S3: key -> Body
    job,               \* remote jobs: id -> "none" | "running" | "done"
    \* Glue
    database,          \* endtoendml-db exists
    crawlerState,      \* "ABSENT" | "READY" | "RUNNING"
    tablesCreated,     \* the crawler's TablesCreated metric
    tableColumns,      \* the columns of table raw, << >> while it has none
    polls,             \* sleeps of the wait loop so far (saturates)
    metricRead,        \* TablesCreated as last read by the notebook, -1 before
    \* experiments
    experiments,       \* names (timestamps) of the experiments of the account
    experiment_name,
    current_experiment,
    \* training and deployment (notebooks 03 and 04)
    training_job_name, \* suffix of the training job's name, << >> before fit
    xgboost_model_path,\* S3 URI of the classifier artifact, << >> while unbound
    invoked,           \* the endpoint has served a request
    captured,          \* capture objects delivered to S3 so far
    capture_files,     \* the list the listing cell binds, << >> while unbound
    statistics_file,   \* 'features' of baseline/statistics.json, << >> if absent
    constraints_file,  \* 'features' of baseline/constraints.json, << >> if absent
    schedule,          \* "none" | "Scheduled": the monitoring schedule
    reports,           \* report objects delivered under the reports prefix
    monitoring_reports,\* the list the reports cell binds, << >> while unbound
    violations_copied, \* monitoring/constraint_violations.json is on disk
    \* the workflow (notebook 07)
    execution,         \* "none" | "Executing" | "Succeeded": the pipeline execution
    execParams,        \* the parameter values of the execution
    stepStatus,        \* step -> "NotStarted" | "Executing" | "Succeeded"
    trainingInputs,    \* channel -> the S3 URI the Training step's job was given
    packages,          \* model package group -> [status, url]
    sklearn_model_data,\* ModelDataUrl of the featurizer package, << >> while unbound
    xgboost_model_data,
    sklearn_model_path_wf, \* the notebook's second sklearn_model_path
    xgboost_model_path_wf

ctlVars == <<pc, err, out>>
glueVars == <<database, crawlerState, tablesCreated, tableColumns>>
loopVars == <<polls, metricRead>>
expVars == <<experiments, experiment_name, current_experiment>>
exploreVars == <<glueVars, loopVars, expVars>>
trainVars == <<training_job_name, xgboost_model_path>>
captureVars == <<invoked, captured, capture_files>>
baselineVars == <<statistics_file, constraints_file>>
monitorVars == <<schedule, reports, monitoring_reports, violations_copied>>
deployVars == <<trainVars, captureVars, baselineVars, monitorVars>>
pipelineVars == <<execution, execParams, stepStatus, trainingInputs, packages>>
registryVars == <<sklearn_model_data, xgboost_model_data, sklearn_model_path_wf,
                  xgboost_model_path_wf>>
workflowVars == <<pipelineVars, registryVars>>
notExplore == <<deployVars, workflowVars>>
notDeploy == <<exploreVars, workflowVars>>
notWorkflow == <<exploreVars, deployVars>>
vars == <<ctlVars, s3, job, exploreVars, deployVars, workflowVars>>

JobIds == {"processing", "training", "endpoint", "baseline", "monitor", "wf_endpoint"}
Times == {"t1", "t2"}
Unbound == "unbound"

Go(next) == pc' = next /\ err' = "none"
Raise(e) == pc' = pc /\ err' = e
Running == err = "none"

\* ------------------------------------------- notebook 02: data exploration
RawDataKey == S3Fmt(<<"data", "/", "raw", "/", "windturbine_raw_data_header.csv">>)
FeaturizerKey == model_path \o <<"model.tar.gz">>
ValFeaturesKey == val_data_path \o <<"val_features.csv">>

\* A notebook in which the cell after the copy is the create_database cell.
CopyDatasetThenCreate ==
    /\ pc = "copy_dataset" /\ Running
    /\ s3' = Put(s3, RawDataKey, Body("copy", << >>))
    /\ Go("create_database")
    /\ out' = out
    /\ UNCHANGED <<job, exploreVars, notExplore>>

\* s3.Bucket(bucket_name).copy(copy_source, prefix + '/' + file_key)
CopyDataset ==
    /\ pc = "copy_dataset" /\ Running
    /\ s3' = Put(s3, RawDataKey, Body("copy", << >>))
    /\ Go("cleanup_glue")
    /\ out' = out
    /\ UNCHANGED <<job, exploreVars, notExplore>>

\* cleanup_glue_resources(): the crawler and the database are gone afterwards.
CleanupGlueResources ==
    /\ pc = "cleanup_glue" /\ Running
    /\ database' = FALSE
    /\ crawlerState' = "ABSENT"
    /\ tablesCreated' = 0
    /\ tableColumns' = << >>
    /\ Go("create_database")
    /\ UNCHANGED <<out, s3, job, loopVars, expVars, notExplore>>

\* glue_client.create_database(...); get_database; assert on the name.
CreateDatabase ==
    /\ pc = "create_database" /\ Running
    /\ IF database
       THEN Raise("AlreadyExistsException") /\ database' = database
       ELSE Go("create_crawler") /\ database' = TRUE
    /\ UNCHANGED <<out, s3, job, crawlerState, tablesCreated, tableColumns, loopVars, expVars, notExplore>>

\* glue_client.create_crawler(Name='endtoendml-crawler', ...)
CreateCrawler ==
    /\ pc = "create_crawler" /\ Running
    /\ IF crawlerState # "ABSENT"
       THEN Raise("AlreadyExistsException") /\ UNCHANGED <<crawlerState, tablesCreated>>
       ELSE Go("start_crawler") /\ crawlerState' = "READY" /\ tablesCreated' = 0
    /\ UNCHANGED <<out, s3, job, database, tableColumns, loopVars, expVars, notExplore>>

\* glue_client.start_crawler(Name='endtoendml-crawler'): returns at once.
StartCrawler ==
    /\ pc = "start_crawler" /\ Running
    /\ crawlerState' = "RUNNING"
    /\ Go("crawler_wait")
    /\ UNCHANGED <<out, s3, job, database, tablesCreated, tableColumns, loopVars, expVars, notExplore>>

\* The loop's test: it goes on while TablesCreated == 0.
LoopContinues(metric) == metric = 0

\* One evaluation of `while get_crawler_metrics(...)['TablesCreated'] == 0:`
CrawlerWaitLoop ==
    /\ pc = "crawler_wait" /\ Running
    /\ metricRead' = tablesCreated
    /\ IF LoopContinues(tablesCreated) THEN Go("crawler_sleep") ELSE Go("crawler_assert")
    /\ UNCHANGED <<out, s3, job, glueVars, polls, expVars, notExplore>>

\* The body of the loop: print('RUNNING'); time.sleep(15). polls counts the
\* rounds, up to MaxPolls.
CrawlerSleep ==
    /\ pc = "crawler_sleep" /\ Running
    /\ polls' = Min(polls + 1, MaxPolls)
    /\ Go("crawler_wait")
    /\ UNCHANGED <<out, s3, job, glueVars, metricRead, expVars, notExplore>>

\* An assertion that only asks for some table: `assert ... != 0`.
AssertNonZero(metric) == metric # 0

\* assert get_crawler_metrics(...)['TablesCreated'] == 1
AssertHolds(metric) == metric = 1

CrawlerAssert ==
    /\ pc = "crawler_assert" /\ Running
    /\ metricRead' = tablesCreated
    /\ IF AssertHolds(tablesCreated) THEN Go("get_table") ELSE Raise("AssertionError")
    /\ UNCHANGED <<out, s3, job, glueVars, polls, expVars, notExplore>>

\* table = glue_client.get_table(DatabaseName='endtoendml-db', Name='raw')
GetTable ==
    /\ pc = "get_table" /\ Running
    /\ Go("update_table")
    /\ UNCHANGED <<out, s3, job, exploreVars, notExplore>>

\* A column list in which wind_direction is a double.
ColumnsNumericDirection ==
    << [Name |-> "turbine_id", Type |-> "string"],
       [Name |-> "turbine_type", Type |-> "string"],
       [Name |-> "wind_speed", Type |-> "double"],
       [Name |-> "rpm_blade", Type |-> "double"],
       [Name |-> "oil_temperature", Type |-> "double"],
       [Name |-> "oil_level", Type |-> "double"],
       [Name |-> "temperature", Type |-> "double"],
       [Name |-> "humidity", Type |-> "double"],
       [Name |-> "vibrations_frequency", Type |-> "double"],
       [Name |-> "pressure", Type |-> "double"],
       [Name |-> "wind_direction", Type |-> "double"],
       [Name |-> "breakdown", Type |-> "string"] >>

Columns ==
    << [Name |-> "turbine_id", Type |-> "string"],
       [Name |-> "turbine_type", Type |-> "string"],
       [Name |-> "wind_speed", Type |-> "double"],
       [Name |-> "rpm_blade", Type |-> "double"],
       [Name |-> "oil_temperature", Type |-> "double"],
       [Name |-> "oil_level", Type |-> "double"],
       [Name |-> "temperature", Type |-> "double"],
       [Name |-> "humidity", Type |-> "double"],
       [Name |-> "vibrations_frequency", Type |-> "double"],
       [Name |-> "pressure", Type |-> "double"],
       [Name |-> "wind_direction", Type |-> "string"],
       [Name |-> "breakdown", Type |-> "string"] >>

\* table['Table']['StorageDescriptor']['Columns'] = [...]; update_table(...)
UpdateTable ==
    /\ pc = "update_table" /\ Running
    /\ tableColumns' = Columns
    /\ Go("athena")
    /\ UNCHANGED <<out, s3, job, database, crawlerState, tablesCreated, loopVars, expVars, notExplore>>

\* The Athena cells: connect(...).cursor(), then each athena_cursor.execute.
AthenaQueries ==
    /\ pc = "athena" /\ Running
    /\ Go("experiment")
    /\ UNCHANGED <<out, s3, job, exploreVars, notExplore>>

\* experiment.Experiment.create(experiment_name=...): the service refuses a
\* name that is taken.
ExperimentCreate(name) ==
    IF name \in experiments
    THEN /\ Raise("ExperimentNameTaken")
         /\ UNCHANGED <<experiments, current_experiment>>
    ELSE /\ Go("create_trial")
         /\ experiments' = experiments \cup {name}
         /\ current_experiment' = name

\* experiment_name = 'end-to-end-ml-sagemaker-{0}'.format(str(int(time.time())))
\* current_experiment = experiment.Experiment.create(experiment_name=...)
ExperimentCell ==
    /\ pc = "experiment" /\ Running
    /\ \E now \in Times :
          /\ experiment_name' = now
          /\ ExperimentCreate(now)
    /\ UNCHANGED <<out, s3, job, glueVars, loopVars, notExplore>>

\* current_trial = current_experiment.create_trial(trial_name=trial_name)
CreateTrial ==
    /\ pc = "create_trial" /\ Running
    /\ Go("processing_run")
    /\ UNCHANGED <<out, s3, job, exploreVars, notExplore>>

\* sklearn_processor.run(...): submits the job and waits for it (wait=True).
ProcessingRun ==
    /\ pc = "processing_run" /\ Running
    /\ job' = [job EXCEPT !["processing"] = "running"]
    /\ Go("processing_wait")
    /\ UNCHANGED <<out, s3, exploreVars, notExplore>>

ProcessingRunReturns ==
    /\ pc = "processing_wait" /\ Running
    /\ job["processing"] = "done"
    /\ Go("download_val")
    /\ UNCHANGED <<out, s3, job, exploreVars, notExplore>>

\* sagemaker_session.download_data('./', bucket_name, s3_key_prefix)
DownloadValFeatures ==
    /\ pc = "download_val" /\ Running
    /\ IF ValFeaturesKey \in DOMAIN s3 THEN Go("explore_done") ELSE Raise("ClientError")
    /\ UNCHANGED <<out, s3, job, exploreVars, notExplore>>

\* ---- the remote side of notebook 02
\* The crawler creates a table while it runs.
CrawlerCreatesTable ==
    /\ crawlerState = "RUNNING"
    /\ tablesCreated < MaxTables
    /\ tablesCreated' = tablesCreated + 1
    /\ UNCHANGED <<ctlVars, s3, job, database, crawlerState, tableColumns, loopVars, expVars, notExplore>>

\* The crawler run ends, with whatever it has created.
CrawlerFinishes ==
    /\ crawlerState = "RUNNING"
    /\ crawlerState' = "READY"
    /\ UNCHANGED <<ctlVars, s3, job, database, tablesCreated, tableColumns, loopVars, expVars, notExplore>>

\* The processing job ends: its three outputs are uploaded to their destinations.
ProcessingJobFinishes ==
    /\ job["processing"] = "running"
    /\ job' = [job EXCEPT !["processing"] = "done"]
    /\ s3' = Put(Put(s3, FeaturizerKey, Body("processing-job", << >>)),
                 ValFeaturesKey, Body("processing-job", << >>))
    /\ UNCHANGED <<ctlVars, exploreVars, notExplore>>

ExploreNotebook ==
    \/ CopyDataset \/ CleanupGlueResources \/ CreateDatabase \/ CreateCrawler
    \/ StartCrawler \/ CrawlerWaitLoop \/ CrawlerSleep \/ CrawlerAssert \/ GetTable \/ UpdateTable
    \/ AthenaQueries \/ ExperimentCell \/ CreateTrial \/ ProcessingRun
    \/ ProcessingRunReturns \/ DownloadValFeatures

ExploreRemote == CrawlerCreatesTable \/ CrawlerFinishes \/ ProcessingJobFinishes

NextExplore == ExploreNotebook \/ ExploreRemote

\* ---------------------------------------------- notebook 03: model training
output_path == S3Fmt(<<"output", "/">>)
code_location == S3Fmt(<<"code">>)

\* The name SageMaker gives a job: the base job name and a generated suffix.
JobName(base, stamp) == <<base>> \o stamp

\* <output_path><job name>/output/model.tar.gz: where a training job leaves
\* its model artifact.
ModelArtifacts(path, name) == path \o name \o <<"/", "output", "/", "model.tar.gz">>

\* <code_location>/<name>/source/sourcedir.tar.gz: the estimator's source_dir.
SourceUploadKey(name) ==
    code_location \o <<"/">> \o name \o <<"/", "source", "/", "sourcedir.tar.gz">>

\* A 'train' channel that reads the raw data.
train_config_raw == S3Fmt(<<"data", "/", "raw", "/">>)

\* train_config / val_config of the training notebook.
train_config == S3Fmt(<<"data", "/", "preprocessed", "/", "train", "/">>)
val_config == S3Fmt(<<"data", "/", "preprocessed", "/", "val", "/">>)

ClassifierKey(stamp) == ModelArtifacts(output_path, JobName("end-to-end-ml-sm-xgb", stamp))

\* estimator.fit({'train': train_config, 'validation': val_config}, ...):
\* uploads source_dir, submits the job and waits for it.
EstimatorFit ==
    /\ pc = "fit" /\ Running
    /\ \E stamp \in Stamps :
          /\ training_job_name' = stamp
          /\ s3' = Put(s3, SourceUploadKey(JobName("end-to-end-ml-sm-xgb", stamp)),
                       Body("fit", << >>))
    /\ job' = [job EXCEPT !["training"] = "running"]
    /\ Go("fit_wait")
    /\ UNCHANGED <<out, xgboost_model_path, captureVars, baselineVars, monitorVars, notDeploy>>

EstimatorFitReturns ==
    /\ pc = "fit_wait" /\ Running
    /\ job["training"] = "done"
    /\ Go("train_done")
    /\ UNCHANGED <<out, s3, job, deployVars, notDeploy>>

\* The training job ends: the model artifact is written under output_path.
TrainingJobFinishes ==
    /\ job["training"] = "running"
    /\ job' = [job EXCEPT !["training"] = "done"]
    /\ s3' = Put(s3, ClassifierKey(training_job_name), Body("training-job", << >>))
    /\ UNCHANGED <<ctlVars, deployVars, notDeploy>>

\* ------------------------------------ notebook 04: deployment and monitoring
sklearn_model_path == S3Fmt(<<"output", "/", "sklearn", "/", "model.tar.gz">>)
s3_capture_upload_path == S3Fmt(<<"monitoring", "/", "datacapture">>)
endpoint_name == <<"end-to-end-ml-sm-pipeline-endpoint">>
baseline_data_path == S3Fmt(<<"data", "/", "raw">>)
baseline_results_path == S3Fmt(<<"monitoring", "/", "baselining", "/", "results">>)
statistics_path == baseline_results_path \o <<"/", "statistics.json">>
constraints_path == baseline_results_path \o <<"/", "constraints.json">>
postprocessor_path == S3Fmt(<<"monitoring", "/", "code", "/", "postprocessor.py">>)
reports_path == S3Fmt(<<"monitoring", "/", "reports">>)

\* '{}/monitoring/datacapture/{}'.format(prefix, endpoint_name), and the key
\* of the i-th object the endpoint delivers under it.
current_endpoint_capture_prefix ==
    Joined(<<prefix, <<"monitoring">>, <<"datacapture">>, endpoint_name>>)
CaptureObjectKey(i) ==
    current_endpoint_capture_prefix \o <<"/">> \o [k \in 1..i |-> "c"] \o <<".jsonl">>

\* '{}/monitoring/reports/{}'.format(prefix, predictor.endpoint_name)
monitoring_reports_prefix ==
    Joined(<<prefix, <<"monitoring">>, <<"reports">>, endpoint_name>>)
ReportObjectKey(i) ==
    monitoring_reports_prefix \o <<"/">> \o [k \in 1..i |-> "r"] \o <<".json">>

\* 's3://{0}/{1}'.format(bucket_name, key)
S3UriOf(key) == S3Scheme \o bucket_name \o <<"/">> \o key

\* result.get('Contents') of list_objects(Bucket, Prefix): None (here << >>)
\* when nothing is under the prefix, else the keys in listing order.
ListedCapture == [i \in 1..captured |-> CaptureObjectKey(i)]
ListedReports == [i \in 1..reports |-> ReportObjectKey(i)]

\* The entries in the reverse of the listing order.
UrisOfReversed(contents) ==
    [i \in 1..Len(contents) |-> S3UriOf(contents[Len(contents) - i + 1])]

\* ['s3://{0}/{1}'.format(bucket_name, f.get("Key")) for f in contents]
UrisOf(contents) == [i \in 1..Len(contents) |-> S3UriOf(contents[i])]

OpenDeployNotebook ==
    /\ pc = "train_done" /\ Running
    /\ Go("model_paths")
    /\ UNCHANGED <<out, s3, job, deployVars, notDeploy>>

\* sklearn_model_path = '...'; xgboost_model_path =
\* get_training_job_s3_model_artifacts(get_latest_training_job_name(...))
RetrieveModelArtifacts ==
    /\ pc = "model_paths" /\ Running
    /\ xgboost_model_path' = ClassifierKey(training_job_name)
    /\ Go("deploy")
    /\ UNCHANGED <<out, s3, job, training_job_name, captureVars, baselineVars,
                   monitorVars, notDeploy>>

\* <code_location>/<model name>/sourcedir.tar.gz: a model's source_dir.
ModelCodeKey(name) == code_location \o <<"/", name, "/", "sourcedir.tar.gz">>

\* SKLearnModel(...), XGBoostModel(...), PipelineModel(...).deploy(...): the
\* two source_dirs are uploaded to code_location, the endpoint is created
\* and the call waits for it.
PipelineModelDeploy ==
    /\ pc = "deploy" /\ Running
    /\ s3' = Put(Put(s3, ModelCodeKey("end-to-end-ml-sm-skl-model"), Body("deploy", << >>)),
                 ModelCodeKey("end-to-end-ml-sm-xgb-model"), Body("deploy", << >>))
    /\ job' = [job EXCEPT !["endpoint"] = "running"]
    /\ Go("deploy_wait")
    /\ UNCHANGED <<out, deployVars, notDeploy>>

PipelineModelDeployReturns ==
    /\ pc = "deploy_wait" /\ Running
    /\ job["endpoint"] = "done"
    /\ Go("predict")
    /\ UNCHANGED <<out, s3, job, deployVars, notDeploy>>

\* print(predictor.predict(payload))
Predict ==
    /\ pc = "predict" /\ Running
    /\ invoked' = TRUE
    /\ Go("capture_list")
    /\ UNCHANGED <<out, s3, job, trainVars, captured, capture_files, baselineVars,
                   monitorVars, notDeploy>>

\* The capture-file listing cell: iterating result.get('Contents') raises
\* TypeError when it is None.
ListCaptureFiles ==
    /\ pc = "capture_list" /\ Running
    /\ IF ListedCapture = << >>
       THEN Raise("TypeError") /\ capture_files' = capture_files
       ELSE Go("suggest_baseline") /\ capture_files' = UrisOf(ListedCapture)
    /\ UNCHANGED <<out, s3, job, trainVars, invoked, captured, baselineVars,
                   monitorVars, notDeploy>>

\* my_default_monitor.suggest_baseline(baseline_dataset=baseline_data_path,
\*     output_s3_uri=baseline_results_path, wait=True)
SuggestBaseline ==
    /\ pc = "suggest_baseline" /\ Running
    /\ job' = [job EXCEPT !["baseline"] = "running"]
    /\ Go("baseline_wait")
    /\ UNCHANGED <<out, s3, deployVars, notDeploy>>

SuggestBaselineReturns ==
    /\ pc = "baseline_wait" /\ Running
    /\ job["baseline"] = "done"
    /\ Go("download_baseline")
    /\ UNCHANGED <<out, s3, job, deployVars, notDeploy>>

\* !aws s3 cp {statistics_path} baseline/ ; !aws s3 cp {constraints_path} baseline/
DownloadBaseline ==
    /\ pc = "download_baseline" /\ Running
    /\ statistics_file' = s3[statistics_path].features
    /\ constraints_file' = s3[constraints_path].features
    /\ Go("reorder_statistics")
    /\ UNCHANGED <<out, s3, job, trainVars, captureVars, monitorVars, notDeploy>>

\* list.insert(0, x)
Insert0(list, x) == <<x>> \o list
\* del list[0], where the cell has del list[-1].
DelFirst(list) == SubSeq(list, 2, Len(list))
\* del list[-1]
DelLast(list) == SubSeq(list, 1, Len(list) - 1)

\* features.insert(0, features[-1]); del features[-1]
SwitchTargetOrder(features) == DelLast(Insert0(features, features[Len(features)]))

\* The statistics.json reorder cell: json.load, the two list statements,
\* json.dump to the same file.
ReorderStatistics ==
    /\ pc = "reorder_statistics" /\ Running
    /\ statistics_file' = SwitchTargetOrder(statistics_file)
    /\ Go("upload_statistics")
    /\ UNCHANGED <<out, s3, job, trainVars, captureVars, constraints_file, monitorVars,
                   notDeploy>>

\* !aws s3 cp baseline/statistics.json {statistics_path}
UploadStatistics ==
    /\ pc = "upload_statistics" /\ Running
    /\ s3' = Put(s3, S3CpKey("statistics.json", statistics_path),
                 Body("notebook", statistics_file))
    /\ Go("reorder_constraints")
    /\ UNCHANGED <<out, job, deployVars, notDeploy>>

\* The constraints.json reorder cell.
ReorderConstraints ==
    /\ pc = "reorder_constraints" /\ Running
    /\ constraints_file' = SwitchTargetOrder(constraints_file)
    /\ Go("upload_constraints")
    /\ UNCHANGED <<out, s3, job, trainVars, captureVars, statistics_file, monitorVars,
                   notDeploy>>

\* !aws s3 cp baseline/constraints.json {constraints_path}
UploadConstraints ==
    /\ pc = "upload_constraints" /\ Running
    /\ s3' = Put(s3, S3CpKey("constraints.json", constraints_path),
                 Body("notebook", constraints_file))
    /\ Go("artificial")
    /\ UNCHANGED <<out, job, deployVars, notDeploy>>

\* for i in range(200): predictor.predict(...)
ArtificialInferences ==
    /\ pc = "artificial" /\ Running
    /\ Go("upload_postprocessor")
    /\ UNCHANGED <<out, s3, job, deployVars, notDeploy>>

\* ...Object(monitoring_code_prefix + '/postprocessor.py').upload_file(...)
UploadPostprocessor ==
    /\ pc = "upload_postprocessor" /\ Running
    /\ s3' = Put(s3, postprocessor_path, Body("notebook", << >>))
    /\ Go("create_schedule")
    /\ UNCHANGED <<out, job, deployVars, notDeploy>>

\* my_default_monitor.create_monitoring_schedule(...)
CreateMonitoringSchedule ==
    /\ pc = "create_schedule" /\ Running
    /\ schedule' = "Scheduled"
    /\ Go("describe_schedule")
    /\ UNCHANGED <<out, s3, job, trainVars, captureVars, baselineVars, reports,
                   monitoring_reports, violations_copied, notDeploy>>

\* my_default_monitor.describe_schedule()
DescribeSchedule ==
    /\ pc = "describe_schedule" /\ Running
    /\ Go("delete_schedule")
    /\ UNCHANGED <<out, s3, job, deployVars, notDeploy>>

\* A cell that leaves the schedule in place.
KeepMonitoringSchedule ==
    /\ pc = "delete_schedule" /\ Running
    /\ schedule' = schedule
    /\ Go("capture_paths")
    /\ UNCHANGED <<out, s3, job, trainVars, captureVars, baselineVars, reports,
                   monitoring_reports, violations_copied, notDeploy>>

\* my_default_monitor.delete_monitoring_schedule()
DeleteMonitoringSchedule ==
    /\ pc = "delete_schedule" /\ Running
    /\ schedule' = "none"
    /\ Go("capture_paths")
    /\ UNCHANGED <<out, s3, job, trainVars, captureVars, baselineVars, reports,
                   monitoring_reports, violations_copied, notDeploy>>

\* The listing again, then data_capture_path and the other paths.
CapturePaths ==
    /\ pc = "capture_paths" /\ Running
    /\ IF ListedCapture = << >>
       THEN Raise("TypeError") /\ capture_files' = capture_files
       ELSE Go("monitor_job") /\ capture_files' = UrisOf(ListedCapture)
    /\ UNCHANGED <<out, s3, job, trainVars, invoked, captured, baselineVars,
                   monitorVars, notDeploy>>

\* run_model_monitor_job_processor(...): runs the processing job and waits.
RunModelMonitorJob ==
    /\ pc = "monitor_job" /\ Running
    /\ job' = [job EXCEPT !["monitor"] = "running"]
    /\ Go("monitor_wait")
    /\ UNCHANGED <<out, s3, deployVars, notDeploy>>

RunModelMonitorJobReturns ==
    /\ pc = "monitor_wait" /\ Running
    /\ job["monitor"] = "done"
    /\ Go("reports_list")
    /\ UNCHANGED <<out, s3, job, deployVars, notDeploy>>

\* The body of the try: the comprehension over result.get('Contents') and
\* the two prints; TypeError when Contents is None.
ReportsListingRaises(contents) == contents = << >>

\* The body of the try without the try: the TypeError of iterating None
\* stops the cell.
ListMonitoringReportsUnhandled ==
    /\ pc = "reports_list" /\ Running
    /\ IF ReportsListingRaises(ListedReports)
       THEN /\ Raise("TypeError")
            /\ UNCHANGED <<out, monitoring_reports>>
       ELSE /\ out' = "Monitoring Reports Files: "
            /\ monitoring_reports' = UrisOf(ListedReports)
            /\ Go("reports_copy")
    /\ UNCHANGED <<s3, job, trainVars, captureVars, baselineVars, schedule, reports,
                   violations_copied, notDeploy>>

\* The monitoring reports listing cell:
\*   try: monitoring_reports = [...]; print(...)
\*   except: print('No monitoring reports found.')
ListMonitoringReports ==
    /\ pc = "reports_list" /\ Running
    /\ IF ReportsListingRaises(ListedReports)
       THEN /\ out' = "No monitoring reports found."
            /\ monitoring_reports' = monitoring_reports
       ELSE /\ out' = "Monitoring Reports Files: "
            /\ monitoring_reports' = UrisOf(ListedReports)
    /\ Go("reports_copy")
    /\ UNCHANGED <<s3, job, trainVars, captureVars, baselineVars, schedule, reports,
                   violations_copied, notDeploy>>

\* !aws s3 cp {monitoring_reports[0]} monitoring/ (and [1], [2]): a shell
\* line raises nothing; the files are there only if all three were listed.
CopyReports ==
    /\ pc = "reports_copy" /\ Running
    /\ violations_copied' = (Len(monitoring_reports) >= ReportFiles)
    /\ Go("violations")
    /\ out' = ""
    /\ UNCHANGED <<s3, job, trainVars, captureVars, baselineVars, schedule, reports,
                   monitoring_reports, notDeploy>>

\* file = open('monitoring/constraint_violations.json', 'r')
DisplayViolations ==
    /\ pc = "violations" /\ Running
    /\ IF violations_copied THEN Go("deploy_done") ELSE Raise("FileNotFoundError")
    /\ UNCHANGED <<out, s3, job, deployVars, notDeploy>>

\* ---- the remote side of notebooks 03 and 04
\* The endpoint comes into service.
EndpointInService ==
    /\ job["endpoint"] = "running"
    /\ job' = [job EXCEPT !["endpoint"] = "done"]
    /\ UNCHANGED <<ctlVars, s3, deployVars, notDeploy>>

\* Data capture delivers one more object, some time after a request.
CaptureDelivered ==
    /\ invoked /\ captured < MaxCapture
    /\ captured' = captured + 1
    /\ s3' = Put(s3, S3UriOf(CaptureObjectKey(captured + 1)), Body("endpoint", << >>))
    /\ UNCHANGED <<ctlVars, job, trainVars, invoked, capture_files, baselineVars,
                   monitorVars, notDeploy>>

\* The feature names a baseline can list: the target variable comes last.
OtherFeatures == {"turbine_id", "wind_speed"}
BaselineFeatures ==
    { f \o <<"breakdown">> : f \in UNION { [1..n -> OtherFeatures] : n \in 0..MaxFeatures } }

\* The baselining job ends: statistics.json and constraints.json are written.
BaselineJobFinishes ==
    /\ job["baseline"] = "running"
    /\ job' = [job EXCEPT !["baseline"] = "done"]
    /\ \E features \in BaselineFeatures :
          s3' = Put(Put(s3, statistics_path, Body("baselining-job", features)),
                    constraints_path, Body("baselining-job", features))
    /\ UNCHANGED <<ctlVars, deployVars, notDeploy>>

\* The monitoring job ends, having delivered some or none of its reports
\* under the prefix the notebook lists.
MonitorJobFinishes ==
    /\ job["monitor"] = "running"
    /\ job' = [job EXCEPT !["monitor"] = "done"]
    /\ \E n \in 0..ReportFiles :
          /\ reports' = n
          /\ s3' = [k \in DOMAIN s3 \cup { S3UriOf(ReportObjectKey(i)) : i \in 1..n } |->
                       IF k \in DOMAIN s3 THEN s3[k] ELSE Body("monitoring-job", << >>)]
    /\ UNCHANGED <<ctlVars, trainVars, captureVars, baselineVars, schedule,
                   monitoring_reports, violations_copied, notDeploy>>

\* The user runs the capture listing cell again after it raised ("please
\* retry after a minute").
RetryListCaptureFiles ==
    /\ pc \in {"capture_list", "capture_paths"} /\ err = "TypeError"
    /\ err' = "none"
    /\ UNCHANGED <<pc, out, s3, job, deployVars, notDeploy>>

DeployNotebook ==
    \/ EstimatorFit \/ EstimatorFitReturns
    \/ OpenDeployNotebook \/ RetrieveModelArtifacts \/ PipelineModelDeploy
    \/ PipelineModelDeployReturns \/ Predict \/ ListCaptureFiles \/ RetryListCaptureFiles
    \/ SuggestBaseline \/ SuggestBaselineReturns \/ DownloadBaseline
    \/ ReorderStatistics \/ UploadStatistics \/ ReorderConstraints \/ UploadConstraints
    \/ ArtificialInferences \/ UploadPostprocessor \/ CreateMonitoringSchedule
    \/ DescribeSchedule \/ DeleteMonitoringSchedule \/ CapturePaths
    \/ RunModelMonitorJob \/ RunModelMonitorJobReturns \/ ListMonitoringReports
    \/ CopyReports \/ DisplayViolations

DeployRemote ==
    \/ TrainingJobFinishes \/ EndpointInService \/ CaptureDelivered
    \/ BaselineJobFinishes \/ MonitorJobFinishes

NextDeploy == DeployNotebook \/ DeployRemote

\* -------------------------------------------------- notebook 07: workflow
\* Parameters whose default training instance type is that of the
\* processing job.
ParameterDefaultsOneInstanceType ==
    [ raw_data_path |-> raw_data_path,
      train_data_path |-> train_data_path,
      val_data_path |-> val_data_path,
      model_path |-> model_path,
      processing_instance_type |-> "ml.m5.large",
      processing_instance_count |-> 1,
      train_test_split_ratio |-> "0.2",
      max_depth |-> "3",
      eta |-> "0.1",
      gamma |-> "0",
      min_child_weight |-> "1",
      objective |-> "binary:logistic",
      num_round |-> "10",
      scale_pos_weight |-> "6.32",
      eval_metric |-> "auc",
      training_instance_type |-> "ml.m5.large",
      training_instance_count |-> 1,
      output_path |-> output_path,
      deploy_instance_type |-> "ml.m5.2xlarge",
      model_approval_status |-> "PendingManualApproval" ]

\* The pipeline parameters and their default values.
ParameterDefaults ==
    [ raw_data_path |-> raw_data_path,
      train_data_path |-> train_data_path,
      val_data_path |-> val_data_path,
      model_path |-> model_path,
      processing_instance_type |-> "ml.m5.large",
      processing_instance_count |-> 1,
      train_test_split_ratio |-> "0.2",
      max_depth |-> "3",
      eta |-> "0.1",
      gamma |-> "0",
      min_child_weight |-> "1",
      objective |-> "binary:logistic",
      num_round |-> "10",
      scale_pos_weight |-> "6.32",
      eval_metric |-> "auc",
      training_instance_type |-> "ml.m5.xlarge",
      training_instance_count |-> 1,
      output_path |-> output_path,
      deploy_instance_type |-> "ml.m5.2xlarge",
      model_approval_status |-> "PendingManualApproval" ]

\* A start that also overrides model_approval_status.
StartParametersApproved ==
    [ParameterDefaults EXCEPT !.train_test_split_ratio = "0.2",
                              !.model_approval_status = "Approved"]

\* execution = pipeline.start(parameters={'train_test_split_ratio': '0.2'})
StartParameters == [ParameterDefaults EXCEPT !.train_test_split_ratio = "0.2"]

\* outputs = [ProcessingOutput(output_name=..., destination=<parameter>)]:
\* output name -> the parameter that is its destination.
outputs ==
    [ train_data |-> "train_data_path", val_data |-> "val_data_path", model |-> "model_path" ]

\* A step argument that is a property of another step: <step>.properties...
\* (step "" stands for an argument that is no property reference).
PropertyOf(step, output) == [step |-> step, output |-> output]

processing_step == [name |-> "Processing", outputs |-> outputs]

\* A Training step given its inputs as plain values, with no property of
\* the Processing step among its arguments.
training_step_unlinked ==
    [ name |-> "Training",
      inputs |-> [ train |-> PropertyOf("", "train_data"),
                   validation |-> PropertyOf("", "val_data") ] ]

\* TrainingStep(name='Training', inputs={'train': TrainingInput(s3_data=
\*   processing_step.properties.ProcessingOutputConfig.Outputs['train_data']
\*   .S3Output.S3Uri), 'validation': ... ['val_data'] ...})
training_step ==
    [ name |-> "Training",
      inputs |-> [ train |-> PropertyOf("Processing", "train_data"),
                   validation |-> PropertyOf("Processing", "val_data") ] ]

\* RegisterModel(name='RegisterFeaturizerModel', model_data=
\*   processing_step.properties.ProcessingOutputConfig.Outputs['model']..., ...)
register_featurizer_step ==
    [ name |-> "RegisterFeaturizerModel",
      model_data |-> PropertyOf("Processing", "model"),
      model_package_group_name |-> "end-to-end-ml-sagemaker-sklearn-featurizer" ]

\* A RegisterXGBoostModel step that takes the Processing step's model output.
register_xgboost_step_on_processing ==
    [ name |-> "RegisterXGBoostModel",
      model_data |-> PropertyOf("Processing", "model"),
      model_package_group_name |-> "end-to-end-ml-sagemaker-xgboost" ]

\* RegisterModel(name='RegisterXGBoostModel', model_data=
\*   training_step.properties.ModelArtifacts.S3ModelArtifacts, ...)
register_xgboost_step ==
    [ name |-> "RegisterXGBoostModel",
      model_data |-> PropertyOf("Training", "ModelArtifacts"),
      model_package_group_name |-> "end-to-end-ml-sagemaker-xgboost" ]

\* Pipeline(..., steps=[processing_step, training_step,
\*                      register_featurizer_step, register_xgboost_step])
steps ==
    << processing_step.name, training_step.name,
       register_featurizer_step.name, register_xgboost_step.name >>
StepNames == { steps[i] : i \in 1..Len(steps) }
Groups ==
    { register_featurizer_step.model_package_group_name,
      register_xgboost_step.model_package_group_name }

\* The steps whose properties a step's arguments use.
References(s) ==
    IF s = training_step.name
    THEN { training_step.inputs[c].step : c \in DOMAIN training_step.inputs }
    ELSE IF s = register_featurizer_step.name THEN { register_featurizer_step.model_data.step }
    ELSE IF s = register_xgboost_step.name THEN { register_xgboost_step.model_data.step }
    ELSE {}

\* A step runs after the steps of the pipeline it takes a property from.
DependsOn(s) == References(s) \cap StepNames

\* The job of the pipeline's Training step.
WorkflowTrainingJob == JobName("pipelines-Training", <<"0">>)

\* The value a property reference has when the step that uses it starts.
Resolve(ref) ==
    IF ref.output \in DOMAIN outputs
    THEN execParams[outputs[ref.output]]
    ELSE ModelArtifacts(execParams.output_path, WorkflowTrainingJob)

\* The artifact of the repack job RegisterModel adds for a model with an
\* entry point: it goes to the default bucket, under the job's name.
RepackArtifacts(name, stamp) ==
    ModelArtifacts(S3Scheme \o bucket_name \o <<"/">>, JobName(name, stamp))

\* ---- the requests of the processing and training jobs
\* A file named relative to the directory of the notebook that names it:
\* ".." leaves a directory.
RECURSIVE NormPath(_, _)
NormPath(done, rest) ==
    IF rest = << >> THEN done
    ELSE IF Head(rest) = ".."
         THEN NormPath(SubSeq(done, 1, Max(Len(done) - 1, 0)), Tail(rest))
         ELSE NormPath(Append(done, Head(rest)), Tail(rest))
FileAt(notebook_dir, relative) == NormPath(notebook_dir, relative)

ExploreDir == <<"02_data_exploration_and_feature_eng">>
TrainDir == <<"03_train_model">>
WorkflowDir == <<"07_workflow">>

\* A Python value given as a hyperparameter: a str or an int.
StrValue(text) == [type |-> "str", text |-> text]
IntValue(text) == [type |-> "int", text |-> text]

\* The SDK sends json.dumps(v) for each hyperparameter.
JsonDumps(v) == IF v.type = "str" THEN <<"\"", v.text, "\"">> ELSE <<v.text>>
\* The training container decodes it and passes str(v) on the command line
\* of the entry point.
JsonLoadsStr(encoded) == IF Len(encoded) = 3 THEN encoded[2] ELSE encoded[1]
ScriptArguments(hp) == [k \in DOMAIN hp |-> JsonLoadsStr(JsonDumps(hp[k]))]

\* The processing job of notebook 02: SKLearnProcessor(...).run(...).
ManualProcessingJob ==
    [ code |-> FileAt(ExploreDir, <<"source_dir", "preprocessor.py">>),
      input |-> raw_data_path,
      outputs |-> [ train_data |-> train_data_path,
                    val_data |-> val_data_path,
                    model |-> model_path ],
      arguments |-> <<"--train-test-split-ratio", "0.2">>,
      instance_type |-> "ml.m5.large",
      instance_count |-> 1,
      framework_version |-> "0.20.0" ]

\* The job of the pipeline's Processing step under the parameters params.
PipelineProcessingJob(params) ==
    [ code |-> FileAt(WorkflowDir, <<"..", "02_data_exploration_and_feature_eng",
                                     "source_dir", "preprocessor.py">>),
      input |-> params.raw_data_path,
      outputs |-> [ o \in DOMAIN outputs |-> params[outputs[o]] ],
      arguments |-> <<"--train-test-split-ratio", params.train_test_split_ratio>>,
      instance_type |-> params.processing_instance_type,
      instance_count |-> params.processing_instance_count,
      framework_version |-> "0.20.0" ]

\* hyperparameters of the training notebook.
hyperparameters ==
    [ max_depth |-> StrValue("3"),
      eta |-> StrValue("0.1"),
      gamma |-> StrValue("0"),
      min_child_weight |-> StrValue("1"),
      silent |-> StrValue("0"),
      objective |-> StrValue("binary:logistic"),
      num_round |-> StrValue("10"),
      scale_pos_weight |-> StrValue("6.32"),
      eval_metric |-> StrValue("auc") ]

\* hyperparameters of the workflow notebook: the parameters, and "silent": 0.
PipelineHyperparameters(params) ==
    [ max_depth |-> StrValue(params.max_depth),
      eta |-> StrValue(params.eta),
      gamma |-> StrValue(params.gamma),
      min_child_weight |-> StrValue(params.min_child_weight),
      silent |-> IntValue("0"),
      objective |-> StrValue(params.objective),
      num_round |-> StrValue(params.num_round),
      scale_pos_weight |-> StrValue(params.scale_pos_weight),
      eval_metric |-> StrValue(params.eval_metric) ]

\* The training job of the training notebook: XGBoost(...).fit(...).
ManualTrainingJob ==
    [ entry_point |-> "training.py",
      source_dir |-> FileAt(TrainDir, <<"source_dir">>),
      arguments |-> ScriptArguments(hyperparameters),
      instance_type |-> "ml.m5.xlarge",
      instance_count |-> 1,
      framework_version |-> "0.90-2",
      py_version |-> "py3",
      output_path |-> output_path,
      code_location |-> code_location ]

\* The job of the pipeline's Training step under the parameters params.
PipelineTrainingJob(params) ==
    [ entry_point |-> "training.py",
      source_dir |-> FileAt(WorkflowDir, <<"..", "03_train_model", "source_dir">>),
      arguments |-> ScriptArguments(PipelineHyperparameters(params)),
      instance_type |-> params.training_instance_type,
      instance_count |-> params.training_instance_count,
      framework_version |-> "0.90-2",
      py_version |-> "py3",
      output_path |-> params.output_path,
      code_location |-> code_location ]

NoPackage == [status |-> "none", url |-> << >>]

\* The cells that define the parameters, the steps and the Pipeline, and
\* pipeline.upsert(role_arn=role).
PipelineUpsert ==
    /\ pc = "pipeline_upsert" /\ Running
    /\ Go("pipeline_start")
    /\ UNCHANGED <<out, s3, job, workflowVars, notWorkflow>>

\* execution = pipeline.start(parameters={...}): returns at once.
PipelineStart ==
    /\ pc = "pipeline_start" /\ Running
    /\ execution' = "Executing"
    /\ execParams' = StartParameters
    /\ stepStatus' = [s \in StepNames |-> "NotStarted"]
    /\ Go("execution_wait")
    /\ UNCHANGED <<out, s3, job, trainingInputs, packages, registryVars, notWorkflow>>

\* A cell that goes on without waiting for the execution.
ExecutionNoWait ==
    /\ pc = "execution_wait" /\ Running
    /\ Go("list_steps")
    /\ UNCHANGED <<out, s3, job, workflowVars, notWorkflow>>

\* execution.wait()
ExecutionWait ==
    /\ pc = "execution_wait" /\ Running
    /\ execution = "Succeeded"
    /\ Go("list_steps")
    /\ UNCHANGED <<out, s3, job, workflowVars, notWorkflow>>

\* steps = execution.list_steps(); the two model package ARNs.
ListSteps ==
    /\ pc = "list_steps" /\ Running
    /\ Go("approve_sklearn")
    /\ UNCHANGED <<out, s3, job, workflowVars, notWorkflow>>

\* sm_client.update_model_package(ModelPackageArn=..., ModelApprovalStatus="Approved")
UpdateModelPackage(group) ==
    packages' = [packages EXCEPT ![group].status = "Approved"]

ApproveFeaturizer ==
    /\ pc = "approve_sklearn" /\ Running
    /\ UpdateModelPackage(register_featurizer_step.model_package_group_name)
    /\ Go("approve_xgboost")
    /\ UNCHANGED <<out, s3, job, execution, execParams, stepStatus, trainingInputs,
                   registryVars, notWorkflow>>

ApproveXGBoost ==
    /\ pc = "approve_xgboost" /\ Running
    /\ UpdateModelPackage(register_xgboost_step.model_package_group_name)
    /\ Go("describe_packages")
    /\ UNCHANGED <<out, s3, job, execution, execParams, stepStatus, trainingInputs,
                   registryVars, notWorkflow>>

\* sm_client.describe_model_package(...)['InferenceSpecification']
\*     ['Containers'][0]['ModelDataUrl'], for both packages.
DescribeModelPackages ==
    /\ pc = "describe_packages" /\ Running
    /\ sklearn_model_data' = packages[register_featurizer_step.model_package_group_name].url
    /\ xgboost_model_data' = packages[register_xgboost_step.model_package_group_name].url
    /\ Go("model_paths_wf")
    /\ UNCHANGED <<out, s3, job, pipelineVars, sklearn_model_path_wf, xgboost_model_path_wf,
                   notWorkflow>>

\* data[0:searched.rfind('/')] + '/'
ModelDirectory(data, searched) == SliceTo(data, rfind(searched, "/")) \o <<"/">>

\* The model data URL itself taken as the upload target.
SklearnModelDataUrl(sk_data) == sk_data

\* sklearn_model_path = sklearn_model_data[0:sklearn_model_data.rfind('/')] + '/'
SklearnModelPath(sk_data) == ModelDirectory(sk_data, sk_data)
\* xgboost_model_path = xgboost_model_data[0:sklearn_model_data.rfind('/')] + '/'
XgboostModelPath(xgb_data, sk_data) == ModelDirectory(xgb_data, sk_data)

ComputeModelPaths ==
    /\ pc = "model_paths_wf" /\ Running
    /\ sklearn_model_path_wf' = SklearnModelPath(sklearn_model_data)
    /\ xgboost_model_path_wf' = XgboostModelPath(xgboost_model_data, sklearn_model_data)
    /\ Go("upload_sourcedirs")
    /\ UNCHANGED <<out, s3, job, pipelineVars, sklearn_model_data, xgboost_model_data,
                   notWorkflow>>

\* !aws s3 cp sklearn_sourcedir.tar.gz {sklearn_model_path}
\* !aws s3 cp xgboost_sourcedir.tar.gz {xgboost_model_path}
UploadSourceDirs ==
    /\ pc = "upload_sourcedirs" /\ Running
    /\ s3' = Put(Put(s3, S3CpKey("sklearn_sourcedir.tar.gz", sklearn_model_path_wf),
                     Body("notebook", << >>)),
                 S3CpKey("xgboost_sourcedir.tar.gz", xgboost_model_path_wf),
                 Body("notebook", << >>))
    /\ Go("deploy_wf")
    /\ UNCHANGED <<out, job, workflowVars, notWorkflow>>

\* Model(...), Model(...), PipelineModel(...).deploy(...): creates the
\* endpoint and waits for it.
WorkflowDeploy ==
    /\ pc = "deploy_wf" /\ Running
    /\ job' = [job EXCEPT !["wf_endpoint"] = "running"]
    /\ Go("deploy_wf_wait")
    /\ UNCHANGED <<out, s3, workflowVars, notWorkflow>>

WorkflowDeployReturns ==
    /\ pc = "deploy_wf_wait" /\ Running
    /\ job["wf_endpoint"] = "done"
    /\ Go("predict_wf")
    /\ UNCHANGED <<out, s3, job, workflowVars, notWorkflow>>

\* print(predictor.predict(payload))
WorkflowPredict ==
    /\ pc = "predict_wf" /\ Running
    /\ Go("delete_endpoint")
    /\ UNCHANGED <<out, s3, job, workflowVars, notWorkflow>>

\* predictor.delete_endpoint()
DeleteEndpoint ==
    /\ pc = "delete_endpoint" /\ Running
    /\ job' = [job EXCEPT !["wf_endpoint"] = "none"]
    /\ Go("workflow_done")
    /\ UNCHANGED <<out, s3, workflowVars, notWorkflow>>

\* ---- the remote side of notebook 07: the pipeline executor
\* A step starts once every step it depends on has succeeded; the Training
\* step's job is given its inputs as they resolve then.
StepStarts(s) ==
    /\ execution = "Executing"
    /\ stepStatus[s] = "NotStarted"
    /\ \A d \in DependsOn(s) : stepStatus[d] = "Succeeded"
    /\ stepStatus' = [stepStatus EXCEPT ![s] = "Executing"]
    /\ trainingInputs' =
          IF s = training_step.name
          THEN [c \in DOMAIN training_step.inputs |-> Resolve(training_step.inputs[c])]
          ELSE trainingInputs
    /\ UNCHANGED <<ctlVars, s3, job, execution, execParams, packages, registryVars,
                   notWorkflow>>

\* The execution has succeeded when its last step has.
Finished(s) ==
    /\ stepStatus[s] = "Executing"
    /\ stepStatus' = [stepStatus EXCEPT ![s] = "Succeeded"]
    /\ execution' = IF \A x \in StepNames \ {s} : stepStatus[x] = "Succeeded"
                    THEN "Succeeded" ELSE execution

\* The Processing step's job ends: its outputs go to their destinations.
ProcessingStepFinishes ==
    /\ Finished(processing_step.name)
    /\ s3' = Put(Put(s3, execParams[outputs.model] \o <<"model.tar.gz">>,
                     Body("pipeline-processing", << >>)),
                 execParams[outputs.val_data] \o <<"val_features.csv">>,
                 Body("pipeline-processing", << >>))
    /\ UNCHANGED <<ctlVars, job, execParams, trainingInputs, packages, registryVars,
                   notWorkflow>>

\* The Training step's job ends: its artifact goes under output_path.
TrainingStepFinishes ==
    /\ Finished(training_step.name)
    /\ s3' = Put(s3, ModelArtifacts(execParams.output_path, WorkflowTrainingJob),
                 Body("pipeline-training", << >>))
    /\ UNCHANGED <<ctlVars, job, execParams, trainingInputs, packages, registryVars,
                   notWorkflow>>

\* A RegisterModel step ends: the repacked model is written and the model
\* package is created with approval_status=model_approval_status_param.
Registered(step, stamp) ==
    LET url == RepackArtifacts(step.name, stamp)
    IN  /\ s3' = Put(s3, url, Body("repack-job", << >>))
        /\ packages' = [packages EXCEPT ![step.model_package_group_name] =
                           [status |-> execParams.model_approval_status, url |-> url]]

RegisterFeaturizerFinishes ==
    /\ Finished(register_featurizer_step.name)
    /\ \E stamp \in Stamps : Registered(register_featurizer_step, stamp)
    /\ UNCHANGED <<ctlVars, job, execParams, trainingInputs, registryVars, notWorkflow>>

RegisterXGBoostFinishes ==
    /\ Finished(register_xgboost_step.name)
    /\ \E stamp \in Stamps : Registered(register_xgboost_step, stamp)
    /\ UNCHANGED <<ctlVars, job, execParams, trainingInputs, registryVars, notWorkflow>>

WorkflowEndpointInService ==
    /\ job["wf_endpoint"] = "running"
    /\ job' = [job EXCEPT !["wf_endpoint"] = "done"]
    /\ UNCHANGED <<ctlVars, s3, workflowVars, notWorkflow>>

WorkflowNotebook ==
    \/ PipelineUpsert \/ PipelineStart \/ ExecutionWait \/ ListSteps
    \/ ApproveFeaturizer \/ ApproveXGBoost \/ DescribeModelPackages
    \/ ComputeModelPaths \/ UploadSourceDirs \/ WorkflowDeploy
    \/ WorkflowDeployReturns \/ WorkflowPredict \/ DeleteEndpoint

WorkflowRemote ==
    \/ \E s \in StepNames : StepStarts(s)
    \/ ProcessingStepFinishes \/ TrainingStepFinishes
    \/ RegisterFeaturizerFinishes \/ RegisterXGBoostFinishes
    \/ WorkflowEndpointInService

NextWorkflow == WorkflowNotebook \/ WorkflowRemote

\* ------------------------------------------------------- the specifications
\* Each notebook is a program of its own, run in a new kernel against the
\* account as the notebooks before it left it.
FreshDeploy ==
    /\ xgboost_model_path = << >>
    /\ capture_files = << >>
    /\ statistics_file = << >> /\ constraints_file = << >>
    /\ monitoring_reports = << >>
    /\ violations_copied = FALSE

FreshWorkflow ==
    /\ execution = "none"
    /\ execParams = ParameterDefaults
    /\ stepStatus = [s \in StepNames |-> "NotStarted"]
    /\ trainingInputs = [c \in DOMAIN training_step.inputs |-> << >>]
    /\ packages = [g \in Groups |-> NoPackage]
    /\ sklearn_model_data = << >> /\ xgboost_model_data = << >>
    /\ sklearn_model_path_wf = << >> /\ xgboost_model_path_wf = << >>

\* The account when notebook 02 has run to its end.
S3Explored ==
    Put(Put(Put(<< >>, RawDataKey, Body("copy", << >>)),
            FeaturizerKey, Body("processing-job", << >>)),
        ValFeaturesKey, Body("processing-job", << >>))

ExploredAccount ==
    /\ s3 = S3Explored
    /\ job = [j \in JobIds |-> IF j = "processing" THEN "done" ELSE "none"]
    /\ database = TRUE /\ crawlerState = "READY" /\ tablesCreated = 1
    /\ tableColumns = Columns
    /\ experiments = {"t1"} /\ experiment_name = "t1"
    /\ training_job_name = << >>
    /\ invoked = FALSE /\ captured = 0
    /\ schedule = "none" /\ reports = 0

\* The account when notebooks 03 and 04 have run to their end.
S3Deployed ==
    LET trained ==
            Put(Put(S3Explored, SourceUploadKey(JobName("end-to-end-ml-sm-xgb", <<"0">>)),
                    Body("fit", << >>)),
                ClassifierKey(<<"0">>), Body("training-job", << >>))
        deployed ==
            Put(Put(trained, ModelCodeKey("end-to-end-ml-sm-skl-model"), Body("deploy", << >>)),
                ModelCodeKey("end-to-end-ml-sm-xgb-model"), Body("deploy", << >>))
        baselined ==
            Put(Put(Put(deployed, statistics_path, Body("notebook", <<"breakdown", "turbine_id">>)),
                    constraints_path, Body("notebook", <<"breakdown", "turbine_id">>)),
                postprocessor_path, Body("notebook", << >>))
        monitored ==
            [k \in DOMAIN baselined \cup { S3UriOf(CaptureObjectKey(i)) : i \in 1..MaxCapture }
                     \cup { S3UriOf(ReportObjectKey(i)) : i \in 1..ReportFiles } |->
                IF k \in DOMAIN baselined THEN baselined[k]
                ELSE IF \E i \in 1..MaxCapture : k = S3UriOf(CaptureObjectKey(i))
                     THEN Body("endpoint", << >>)
                     ELSE Body("monitoring-job", << >>)]
    IN  monitored

DeployedAccount ==
    /\ s3 = S3Deployed
    /\ job = [j \in JobIds |-> IF j = "wf_endpoint" THEN "none" ELSE "done"]
    /\ database = TRUE /\ crawlerState = "READY" /\ tablesCreated = 1
    /\ tableColumns = Columns
    /\ experiments = {"t1"} /\ experiment_name = "t1"
    /\ training_job_name = <<"0">>
    /\ invoked = TRUE /\ captured = MaxCapture
    /\ schedule = "none" /\ reports = ReportFiles

FreshKernel ==
    /\ err = "none" /\ out = ""
    /\ polls = 0 /\ metricRead = -1 /\ current_experiment = Unbound

\* The account before the first cell of notebook 02: resources of an earlier
\* run may be left.
InitExplore ==
    /\ pc = "copy_dataset" /\ FreshKernel
    /\ s3 = << >>
    /\ job = [j \in JobIds |-> "none"]
    /\ database \in BOOLEAN
    /\ crawlerState \in {"ABSENT", "READY"}
    /\ tablesCreated = 0
    /\ tableColumns = << >>
    /\ experiments \in SUBSET Times
    /\ experiment_name = Unbound
    /\ training_job_name = << >>
    /\ invoked = FALSE /\ captured = 0
    /\ schedule = "none" /\ reports = 0
    /\ FreshDeploy /\ FreshWorkflow

InitDeploy == pc = "fit" /\ FreshKernel /\ ExploredAccount /\ FreshDeploy /\ FreshWorkflow

InitWorkflow ==
    pc = "pipeline_upsert" /\ FreshKernel /\ DeployedAccount /\ FreshDeploy /\ FreshWorkflow

Init == InitExplore \/ InitDeploy \/ InitWorkflow
Next == NextExplore \/ NextDeploy \/ NextWorkflow
Spec == Init /\ [][Next]_vars

\* The kernel runs the next statement and every remote operation that has
\* been started comes to an end.
FairSpec ==
    /\ Spec
    /\ WF_vars(ExploreNotebook \/ DeployNotebook \/ WorkflowNotebook)
    /\ WF_vars(CrawlerFinishes)
    /\ WF_vars(ProcessingJobFinishes \/ DeployRemote \/ WorkflowRemote)

\* ------------------------------------------------------------ properties
\* C1: after start_crawler the crawler wait loop always terminates, for every
\* crawler outcome, a run that ends with zero tables included: whenever the
\* notebook is in the loop it eventually leaves it.
C1_LoopTerminates ==
    (pc \in {"crawler_wait", "crawler_sleep"} /\ err = "none")
        ~> (pc \notin {"crawler_wait", "crawler_sleep"})

\* C2: the Training step starts only after the Processing step has completed,
\* and its 'train' and 'validation' inputs are the train_data and val_data
\* outputs of that Processing step.
C2_TrainingAfterProcessing ==
    stepStatus[training_step.name] # "NotStarted" =>
        /\ stepStatus[processing_step.name] = "Succeeded"
        /\ trainingInputs.train = execParams[processing_step.outputs.train_data]
        /\ trainingInputs.validation = execParams[processing_step.outputs.val_data]

C2_TrainingRuns ==
    /\ stepStatus[training_step.name] = "Executing"
    /\ trainingInputs.train = train_data_path
    /\ trainingInputs.validation = val_data_path

\* The remote jobs the notebooks start and wait for, and the pipeline steps,
\* that are in progress.
JobsInProgress == { j \in JobIds : job[j] = "running" }
StepsInProgress == { s \in StepNames : stepStatus[s] = "Executing" }

\* The steps a step depends on, directly or through other steps.
RECURSIVE Reach(_, _)
Reach(S, n) ==
    IF n = 0 THEN S ELSE Reach(S \cup UNION { DependsOn(x) : x \in S }, n - 1)
Upstream(s) == Reach(DependsOn(s), Len(steps))

\* C3 as stated: at no time are two remote jobs or pipeline steps in progress
\* at once; in particular Training and RegisterFeaturizerModel never are.
C3_NoConcurrency == Cardinality(JobsInProgress) + Cardinality(StepsInProgress) <= 1

\* C3, amended: the jobs the notebooks wait for never overlap each other or a
\* pipeline step, and a pipeline step is never in progress together with a
\* step it depends on; steps that do not depend on one another (Training or
\* RegisterXGBoostModel, and RegisterFeaturizerModel) may run at once.
C3_DependentStepsExclusive ==
    /\ Cardinality(JobsInProgress) <= 1
    /\ JobsInProgress # {} => StepsInProgress = {}
    /\ \A s \in StepsInProgress : Upstream(s) \cap StepsInProgress = {}

C3_TrainingWithRegisterFeaturizer ==
    /\ stepStatus[training_step.name] = "Executing"
    /\ stepStatus[register_featurizer_step.name] = "Executing"

\* The cells at which the control thread is inside a call, or a loop, that
\* waits for a remote operation.
WaitingCells ==
    { "crawler_wait", "crawler_sleep", "crawler_assert", "processing_wait", "fit_wait", "deploy_wait",
      "baseline_wait", "monitor_wait", "execution_wait", "deploy_wf_wait" }

RemoteInProgress ==
    \/ crawlerState = "RUNNING"
    \/ JobsInProgress # {}
    \/ execution = "Executing"

\* C4: each call blocks until its remote operation has finished before the
\* next one is issued: while a crawl, a job or a pipeline execution is still
\* running the control thread is at the cell that waits for it.
C4_StrictSequence == RemoteInProgress => pc \in WaitingCells

\* An object that is a model artifact: <...>/model.tar.gz.
IsModelArtifact(k) == Len(k) > 0 /\ k[Len(k)] = "model.tar.gz"

\* C5 as stated: once a featurizer or classifier artifact is produced, no
\* later step writes to, overwrites or deletes the object at its location.
C5_ArtifactsImmutable ==
    [][\A k \in DOMAIN s3 :
          IsModelArtifact(k) => k \in DOMAIN s3' /\ s3'[k] = s3[k]]_vars

\* C5, amended: an artifact is never deleted, and the one step that rewrites
\* an artifact is the pipeline's Processing step, whose 'model' output goes
\* by default to the location of notebook 02's featurizer artifact; no
\* deployment, source-dir upload, registration or monitoring step writes there.
C5_OnlyProcessingStepRewrites ==
    [][\A k \in DOMAIN s3 :
          IsModelArtifact(k) =>
              /\ k \in DOMAIN s3'
              /\ s3'[k] # s3[k] =>
                    /\ k = FeaturizerKey
                    /\ stepStatus[processing_step.name] = "Executing"
                    /\ stepStatus'[processing_step.name] = "Succeeded"]_vars

C5_FeaturizerRewritten ==
    /\ pc = "workflow_done"
    /\ s3[FeaturizerKey].by = "pipeline-processing"
    /\ S3CpKey("sklearn_sourcedir.tar.gz", sklearn_model_path_wf) \in DOMAIN s3

\* A step of the control thread at the monitoring reports listing cell, when
\* the listing has no contents.
ListsNoReports ==
    /\ pc = "reports_list" /\ err = "none"
    /\ ListedReports = << >>
    /\ ctlVars' # ctlVars

\* C6 as stated: when no report has been delivered the listing cell handles
\* nothing and the cell stops with the error raised for the listing.
C6_ListingErrorSurfaces == [][ListsNoReports => err' # "none" /\ pc' = pc]_vars

\* C6, amended: when no report has been delivered the listing cell catches
\* the error, prints 'No monitoring reports found.' and ends normally with
\* monitoring_reports left as it was; the notebook goes on to the next cell.
C6_ListingErrorCaught ==
    [][ListsNoReports =>
          /\ err' = "none"
          /\ out' = "No monitoring reports found."
          /\ monitoring_reports' = monitoring_reports
          /\ pc' = "reports_copy"]_vars

C6_NoReportsPrinted ==
    /\ pc = "reports_copy" /\ err = "none"
    /\ out = "No monitoring reports found."
    /\ reports = 0 /\ monitoring_reports = << >>

StepTree(s) ==
    IF s = "Training" THEN {"Processing"}
    ELSE IF s = "RegisterFeaturizerModel" THEN {"Processing"}
    ELSE IF s = "RegisterXGBoostModel" THEN {"Training"}
    ELSE {}

\* C8: RegisterFeaturizerModel starts only after Processing has completed,
\* RegisterXGBoostModel only after Training has completed; the dependency
\* graph is Processing -> {RegisterFeaturizerModel, Training},
\* Training -> RegisterXGBoostModel, and it has no cycle.
C8_RegisterAfterProducer ==
    /\ stepStatus[register_featurizer_step.name] # "NotStarted" =>
           stepStatus[processing_step.name] = "Succeeded"
    /\ stepStatus[register_xgboost_step.name] # "NotStarted" =>
           stepStatus[training_step.name] = "Succeeded"
    /\ \A s \in StepNames : DependsOn(s) = StepTree(s)
    /\ \A s \in StepNames : s \notin Upstream(s)

C8_BothRegistersStarted ==
    /\ stepStatus[register_xgboost_step.name] = "Executing"
    /\ stepStatus[register_featurizer_step.name] = "Executing"

\* before: the 'features' list a reorder cell loaded; after: the one it dumped.
TargetMovedFirst(before, after) ==
    (Len(before) > 0 /\ before[Len(before)] = "breakdown") =>
        /\ Len(after) = Len(before)
        /\ after[1] = "breakdown"
        /\ \A i \in 1..(Len(before) - 1) : after[i + 1] = before[i]

\* C9: a reorder cell run on a non-empty 'features' list that ends with the
\* target leaves the target first, the other features in their order, and
\* the length as it was, for statistics.json and for constraints.json.
C9_TargetFirst ==
    [][/\ (pc = "reorder_statistics" /\ pc' = "upload_statistics" =>
               TargetMovedFirst(statistics_file, statistics_file'))
       /\ (pc = "reorder_constraints" /\ pc' = "upload_constraints" =>
               TargetMovedFirst(constraints_file, constraints_file'))]_vars

C9_Reordered ==
    /\ pc = "artificial"
    /\ statistics_file = <<"breakdown", "turbine_id", "wind_speed">>
    /\ constraints_file = <<"breakdown", "turbine_id", "wind_speed">>
    /\ s3[statistics_path].features = statistics_file

\* C10: the experiment cell creates the experiment or loads it when one with
\* the computed name exists: it never stops with an error, and after it
\* current_experiment is the experiment named experiment_name.
C10_CreateOrLoad ==
    /\ pc = "experiment" => err = "none"
    /\ pc = "create_trial" => current_experiment = experiment_name /\ experiment_name \in experiments

RunsCaptureListing ==
    /\ pc = "capture_list" /\ err = "none"
    /\ ctlVars' # ctlVars

\* C12: run when no capture object has been delivered, the capture-file
\* listing cell stops with an error and binds no capture_files; run (again)
\* when objects have been delivered it succeeds and capture_files has one
\* 's3://<bucket>/<key>' entry per listed object, in listing order.
C12_CaptureListing ==
    [][RunsCaptureListing =>
          IF captured = 0
          THEN /\ err' = "TypeError" /\ pc' = pc
               /\ capture_files' = capture_files /\ capture_files = << >>
          ELSE /\ err' = "none" /\ pc' = "suggest_baseline"
               /\ Len(capture_files') = captured
               /\ \A i \in 1..captured :
                     capture_files'[i] =
                        <<"s3:", "/", "/">> \o bucket_name \o <<"/">> \o CaptureObjectKey(i)]_vars

\* The cell has failed, nothing is bound, and objects have been delivered
\* since: a retry lists them.
C12_FailedThenDelivered ==
    /\ pc = "capture_list" /\ err = "TypeError"
    /\ capture_files = << >>
    /\ captured = MaxCapture

\* The cells of the workflow notebook up to each update_model_package call,
\* and those from pipeline_model.deploy on.
UpToApproveFeaturizer ==
    { "pipeline_upsert", "pipeline_start", "execution_wait", "list_steps", "approve_sklearn" }
UpToApproveXGBoost == UpToApproveFeaturizer \cup { "approve_xgboost" }
FromWorkflowDeploy ==
    { "deploy_wf", "deploy_wf_wait", "predict_wf", "delete_endpoint", "workflow_done" }

ApprovalStatus(group) == packages[group].status

\* C13: a model package registered by the pipeline execution is
\* PendingManualApproval from its registration until the notebook's
\* update_model_package call for it, and Approved from then on;
\* pipeline_model.deploy is issued only when both packages are Approved.
C13_ApprovedBeforeDeploy ==
    LET featurizer == register_featurizer_step.model_package_group_name
        xgboost == register_xgboost_step.model_package_group_name
    IN  /\ ApprovalStatus(featurizer) # "none" =>
               ApprovalStatus(featurizer) =
                  IF pc \in UpToApproveFeaturizer THEN "PendingManualApproval" ELSE "Approved"
        /\ ApprovalStatus(xgboost) # "none" =>
               ApprovalStatus(xgboost) =
                  IF pc \in UpToApproveXGBoost THEN "PendingManualApproval" ELSE "Approved"
        /\ (pc \in FromWorkflowDeploy \/ job["wf_endpoint"] # "none") =>
               /\ pc \in FromWorkflowDeploy
               /\ ApprovalStatus(featurizer) = "Approved"
               /\ ApprovalStatus(xgboost) = "Approved"

C13_DeployIssued ==
    /\ pc = "deploy_wf_wait" /\ job["wf_endpoint"] = "running"
    /\ \A g \in Groups : ApprovalStatus(g) = "Approved"
    /\ execParams.model_approval_status = "PendingManualApproval"

\* C14: a pipeline execution under the default parameter values runs the
\* processing and training operations of the manual notebooks: the same
\* script, input and output locations, split ratio, instance type and count
\* for processing; the same entry point, hyperparameter values, instance
\* type and count, framework version and output path for training.
C14_SameOperationsAsManual ==
    (execution # "none" /\ execParams = ParameterDefaults) =>
        /\ PipelineProcessingJob(execParams) = ManualProcessingJob
        /\ PipelineTrainingJob(execParams) = ManualTrainingJob

C14_DefaultExecutionDone ==
    /\ execution = "Succeeded"
    /\ execParams = ParameterDefaults
    /\ stepStatus[training_step.name] = "Succeeded"

\* The objects of the bucket under an S3 location.
IsPrefix(p, s) == Len(p) <= Len(s) /\ SubSeq(s, 1, Len(p)) = p
ObjectsUnder(location) == { k \in DOMAIN s3 : IsPrefix(location, k) }

\* C15: the baselining job inspects the validation dataset: while it runs,
\* the location given as baseline_dataset holds the validation data written
\* by the preprocessing job, and nothing else.
C15_BaselineOnValidationData ==
    job["baseline"] = "running" =>
        /\ ValFeaturesKey \in ObjectsUnder(baseline_data_path)
        /\ \A k \in ObjectsUnder(baseline_data_path) : s3[k].by = "processing-job"

\* The columns of the table definition that have a type, by position.
ColumnsOfType(type) == { i \in 1..Len(tableColumns) : tableColumns[i].Type = type }
TableWritten == tableColumns # << >>

\* C16 as stated: the table definition update_table writes has twelve
\* columns: an identifier, a categorical type, nine numeric measurements and
\* the outcome label.
C16_NineNumericColumns ==
    [][(pc = "update_table" /\ pc' = "athena") =>
          /\ Len(tableColumns') = 12
          /\ Cardinality({ i \in 1..12 : tableColumns'[i].Type = "double" }) = 9
          /\ Cardinality({ i \in 1..12 : tableColumns'[i].Type = "string" }) = 3]_vars

\* C16, amended: the table definition written by update_table has twelve
\* columns: the identifier turbine_id and the type turbine_type (strings),
\* eight numeric measurements (doubles), wind_direction (a string) and the
\* outcome label breakdown (a string), in that order.
C16_EightNumericColumns ==
    TableWritten =>
        /\ Len(tableColumns) = 12
        /\ tableColumns[1] = [Name |-> "turbine_id", Type |-> "string"]
        /\ tableColumns[2] = [Name |-> "turbine_type", Type |-> "string"]
        /\ ColumnsOfType("double") = 3..10
        /\ tableColumns[11] = [Name |-> "wind_direction", Type |-> "string"]
        /\ tableColumns[12] = [Name |-> "breakdown", Type |-> "string"]
        /\ Cardinality({ tableColumns[i].Name : i \in 1..12 }) = 12

C16_TableUpdated ==
    /\ pc = "athena" /\ err = "none"
    /\ Len(tableColumns) = 12

\* The cells of the deploy notebook after delete_monitoring_schedule.
AfterScheduleDeletion ==
    { "capture_paths", "monitor_job", "monitor_wait", "reports_list", "reports_copy",
      "violations", "deploy_done" }

\* C17: the monitoring schedule the notebook creates is deleted before the
\* manual monitoring job is started, and from the deletion to the end of the
\* notebook no monitoring schedule exists.
C17_ScheduleDeletedBeforeJob ==
    /\ schedule # "none" => pc \in { "describe_schedule", "delete_schedule" }
    /\ pc \in AfterScheduleDeletion => schedule = "none"
    /\ job["monitor"] # "none" => schedule = "none"

C17_ManualJobRuns ==
    /\ pc = "monitor_wait" /\ job["monitor"] = "running"
    /\ schedule = "none"
    /\ postprocessor_path \in DOMAIN s3

\* C18: each stage consumes the location its predecessor produced: the
\* training job's 'train' and 'validation' inputs are the processing job's
\* train_data and val_data output destinations, and the SKLearn model_data
\* deployed is model.tar.gz directly under the 'model' output destination,
\* the object the processing job wrote.
C18_StagesChained ==
    /\ job["training"] = "running" =>
           /\ train_config = ManualProcessingJob.outputs.train_data
           /\ val_config = ManualProcessingJob.outputs.val_data
    /\ job["endpoint"] = "running" =>
           /\ sklearn_model_path = ManualProcessingJob.outputs.model \o <<"model.tar.gz">>
           /\ sklearn_model_path \in DOMAIN s3
           /\ s3[sklearn_model_path].by = "processing-job"

C18_TrainedThenDeploying ==
    /\ job["processing"] = "done" /\ job["training"] = "done"
    /\ job["endpoint"] = "running"
    /\ ClassifierKey(training_job_name) \in DOMAIN s3

====
